---- MODULE Spec2Model ----
(***************************************************************************)
(* bitlab: extraction and insertion of bit ranges from / into sized        *)
(* integers and byte vectors (src/src/lib.rs).                             *)
(*                                                                         *)
(* Every integer is modelled by its bit pattern: a sequence of 0/1 of the  *)
(* type's width, index 1 being the MOST significant bit, so that the       *)
(* crate's bit offset k (0 = most significant) is index k + 1.  A Vec<u8>  *)
(* is the concatenation of its bytes, 8 bits per byte, lowest index first. *)
(* The library keeps no state of its own: the state is the caller's value  *)
(* `self` and the record `last` of the one call made on it.                *)
(***************************************************************************)
EXTENDS Integers, Sequences, FiniteSets, TLC

VARIABLES self, last, pc

vars == <<self, last, pc>>

\* ------------------------------------------------------------------------
\* Bounds of the model
\* ------------------------------------------------------------------------

\* longest byte vector the caller holds
MaxVecLen == 6

\* ------------------------------------------------------------------------
\* Types
\* ------------------------------------------------------------------------

IntTypes == {"u8", "i8", "u16", "i16", "u32", "i32", "u64", "i64"}

VecType == "Vec<u8>"

\* core::mem::size_of::<T>() * 8
Width(ty) ==
  CASE ty \in {"u8", "i8"} -> 8
    [] ty \in {"u16", "i16"} -> 16
    [] ty \in {"u32", "i32"} -> 32
    [] ty \in {"u64", "i64"} -> 64

is_signed(ty) == ty \in {"i8", "i16", "i32", "i64"}

\* the unsigned / signed integer type of a given width
UTy(w) == CASE w = 8 -> "u8" [] w = 16 -> "u16" [] w = 32 -> "u32" [] w = 64 -> "u64"

ITy(w) == CASE w = 8 -> "i8" [] w = 16 -> "i16" [] w = 32 -> "i32" [] w = 64 -> "i64"

\* ------------------------------------------------------------------------
\* Machine integers as bit patterns
\* ------------------------------------------------------------------------

Pow2(n) == 2 ^ n

\* a bit pattern as a plain tuple
Bits(f) == f \o <<>>

Zeros(w) == Bits([i \in 1..w |-> 0])

\* the w-bit pattern whose low `ones` bits are set (a binary literal 0b0..01..1)
LowOnes(w, ones) == Bits([i \in 1..w |-> IF i > w - ones THEN 1 ELSE 0])

\* the w-bit two's-complement pattern of a small integer n
FromInt(w, n) ==
  Bits([i \in 1..w |-> IF w - i >= 31
                         THEN (IF n < 0 THEN 1 ELSE 0)
                         ELSE (n \div Pow2(w - i)) % 2])

\* the number an unsigned pattern of fewer than 31 significant bits stands for
RECURSIVE ToNat(_)
ToNat(b) == IF Len(b) = 0 THEN 0
            ELSE 2 * ToNat(SubSeq(b, 1, Len(b) - 1)) + b[Len(b)]

\* x << n, 0 <= n < width (every call site is behind a range check)
Shl(x, n) == Bits([i \in 1..Len(x) |-> IF i + n <= Len(x) THEN x[i + n] ELSE 0])

\* x >> n on an unsigned type (logical)
Shr(x, n) == Bits([i \in 1..Len(x) |-> IF i - n >= 1 THEN x[i - n] ELSE 0])

\* x >> n on a signed type (arithmetic)
Sar(x, n) == Bits([i \in 1..Len(x) |-> IF i - n >= 1 THEN x[i - n] ELSE x[1]])

\* x.rotate_right(n)
RotateRight(x, n) == Bits([i \in 1..Len(x) |-> x[((i - 1 - n) % Len(x)) + 1]])

BitAnd(x, y) == Bits([i \in 1..Len(x) |-> IF x[i] = 1 /\ y[i] = 1 THEN 1 ELSE 0])

BitOr(x, y) == Bits([i \in 1..Len(x) |-> IF x[i] = 1 \/ y[i] = 1 THEN 1 ELSE 0])

\* `x as T`: truncation keeps the low bits, widening extends with the sign
\* bit when the source type is signed and with 0 otherwise
Cast(x, fromSigned, w) ==
  IF w <= Len(x)
    THEN Bits([i \in 1..w |-> x[Len(x) - w + i]])
    ELSE Bits([i \in 1..w |-> IF i > w - Len(x) THEN x[i - (w - Len(x))]
                              ELSE IF fromSigned THEN x[1] ELSE 0])

\* ------------------------------------------------------------------------
\* Results
\* ------------------------------------------------------------------------

OUT_OF_RANGE_MSG == "Out of range"

LEN_TOO_BIG_MSG == "The length parameter is too big for a "

LEN_ZERO == "The length parameter must not be zero"

VALUE_TOO_WIDE == "Failed to insert"

\* a panic of the thread (index out of bounds, arithmetic overflow)
PANIC == "panic"

\* Ok(value of type ty)
Ok(ty, bits) == [ok |-> TRUE, err |-> "", ty |-> ty, bits |-> bits, n |-> 0]

\* Err(message); ty is the type name appended to LEN_TOO_BIG_MSG, n the number
\* of bits quoted by the "Failed to insert" message
Err(msg, ty, n) == [ok |-> FALSE, err |-> msg, ty |-> ty, bits |-> <<>>, n |-> n]

NoResult == Err("", "", 0)

\* a returned u32 (the estimators)
OkU32(n) == [ok |-> TRUE, err |-> "", ty |-> "u32", bits |-> <<>>, n |-> n]

\* ------------------------------------------------------------------------
\* Range checks
\* ------------------------------------------------------------------------

\* fault: the largest bit offset is taken to be the width
check_max_bit_offset_width(ty, x) == x > Width(ty)

\* check_max_bit_offset!: TRUE when the macro returns Err(OUT_OF_RANGE_MSG)
check_max_bit_offset(ty, x) == x > Width(ty) - 1

\* fault: the span may end one bit past the width
check_range_one_past(w, bit_offset, length) ==
  IF length = 0 THEN LEN_ZERO
  ELSE IF bit_offset + length > w + 1 THEN OUT_OF_RANGE_MSG
  ELSE ""

\* fault: the span is checked before the zero length
check_range_span_first(w, bit_offset, length) ==
  IF bit_offset + length > w THEN OUT_OF_RANGE_MSG
  ELSE IF length = 0 THEN LEN_ZERO
  ELSE ""

\* check_range!: the error the macro returns, "" when it falls through
check_range(w, bit_offset, length) ==
  IF length = 0 THEN LEN_ZERO
  ELSE IF bit_offset + length > w THEN OUT_OF_RANGE_MSG
  ELSE ""

\* ------------------------------------------------------------------------
\* SingleBits
\* ------------------------------------------------------------------------

\* the literal `a` of set_bit and get_bit: only the most significant bit set
MsbLiteral(ty) == Bits([i \in 1..Width(ty) |-> IF i = 1 THEN 1 ELSE 0])

\* fault: every clear_bit literal one digit short, as the i64 one is 32 short
ClearLiteralShort(ty) == LowOnes(Width(ty), Width(ty) - 2)

\* the literal `a` of clear_bit, as written in each impl: the i64 impl
\* writes a 32-digit literal into a u64
ClearLiteral(ty) ==
  IF ty = "i64" THEN LowOnes(64, 31) ELSE LowOnes(Width(ty), Width(ty) - 1)

\* fault: the mask counts bit offsets from the least significant bit
set_bit_lsb_first(ty, bits, bit_offset) ==
  IF check_max_bit_offset(ty, bit_offset) THEN Err(OUT_OF_RANGE_MSG, "", 0)
  ELSE Ok(ty, BitOr(bits, Shl(LowOnes(Width(ty), 1), bit_offset)))

set_bit(ty, bits, bit_offset) ==
  IF check_max_bit_offset(ty, bit_offset) THEN Err(OUT_OF_RANGE_MSG, "", 0)
  ELSE Ok(ty, BitOr(bits, Shr(MsbLiteral(ty), bit_offset)))

\* fault: `copy > 0` compared in the signed type itself, where the sign bit
\* alone makes a negative number
get_bit_signed_compare(ty, bits, bit_offset) ==
  IF check_max_bit_offset(ty, bit_offset) THEN Err(OUT_OF_RANGE_MSG, "", 0)
  ELSE LET copy == BitAnd(bits, Shr(MsbLiteral(ty), bit_offset))
       IN  Ok("bool", IF copy # Zeros(Width(ty)) /\ ~(is_signed(ty) /\ copy[1] = 1)
                        THEN <<1>> ELSE <<0>>)

get_bit(ty, bits, bit_offset) ==
  IF check_max_bit_offset(ty, bit_offset) THEN Err(OUT_OF_RANGE_MSG, "", 0)
  ELSE LET copy == BitAnd(bits, Shr(MsbLiteral(ty), bit_offset))
       IN  Ok("bool", IF copy # Zeros(Width(ty)) THEN <<1>> ELSE <<0>>)

clear_bit(ty, bits, bit_offset) ==
  IF check_max_bit_offset(ty, bit_offset) THEN Err(OUT_OF_RANGE_MSG, "", 0)
  ELSE Ok(ty, BitAnd(bits, RotateRight(ClearLiteral(ty), bit_offset)))

\* ------------------------------------------------------------------------
\* Bit-width estimators
\* ------------------------------------------------------------------------

\* index of the first set bit of x, Len(x) + 1 when there is none
FirstOne(x) ==
  CHOOSE i \in 1..(Len(x) + 1) :
    /\ (i = Len(x) + 1 \/ x[i] = 1)
    /\ \A j \in 1..(i - 1) : x[j] = 0

\* x + 1 on a pattern that is not all ones
Inc(x) ==
  LET z == CHOOSE i \in 1..Len(x) : x[i] = 0 /\ \A j \in (i + 1)..Len(x) : x[j] = 1
  IN  Bits([i \in 1..Len(x) |-> IF i < z THEN x[i] ELSE IF i = z THEN 1 ELSE 0])

\* two's-complement negation (wrapping), used for i.abs() of a negative i64
Neg(x) ==
  LET inv == Bits([i \in 1..Len(x) |-> 1 - x[i]])
  IN  IF inv = LowOnes(Len(x), Len(x)) THEN Zeros(Len(x)) ELSE Inc(inv)

\* the double nearest to num (ties to even) when the first set bit of num is
\* at index p: exponent e and 53-bit mantissa m (m[1] = 1), num ~ m * 2^(e-52)
RoundToF64(num, p, keep) ==
  LET sb == 65 - p
  IN  IF sb = 0 THEN [zero |-> TRUE, e |-> 0, m |-> Zeros(53)]
      ELSE IF sb <= 53 THEN [zero |-> FALSE, e |-> sb - 1, m |-> keep]
      ELSE LET guard  == num[p + 53]
               sticky == \E j \in (p + 54)..64 : num[j] = 1
               up     == guard = 1 /\ (sticky \/ keep[53] = 1)
           IN  IF ~up THEN [zero |-> FALSE, e |-> sb - 1, m |-> keep]
               ELSE IF keep = LowOnes(53, 53)
                 THEN [zero |-> FALSE, e |-> sb, m |-> Shl(LowOnes(53, 1), 52)]
                 ELSE [zero |-> FALSE, e |-> sb - 1, m |-> Inc(keep)]

\* the 53 bits of num from index p on
Keep53(num, p) == Bits([k \in 1..53 |-> IF p + k - 1 <= 64 THEN num[p + k - 1] ELSE 0])

\* `num as f64` for a 64-bit magnitude
AsF64(num) == RoundToF64(num, FirstOne(num), Keep53(num, FirstOne(num)))

\* f is an exact power of two
IsPow2(f) == \A k \in 2..53 : f.m[k] = 0

\* f.log2() of a double just below 2^(e+1) rounds to e + 1: between 32 and 64
\* the doubles are 2^-47 apart, so log2(f) = e + 1 - d / ln 2 rounds up once
\* the mantissa is within 22 units of 2^53
Log2RoundsUp(f) ==
  /\ \A k \in 1..48 : f.m[k] = 1
  /\ ToNat(SubSeq(f.m, 49, 53)) >= 10

\* f.log2() of a double just above 2^e rounds to e: the mantissa is within
\* 11 units of 2^52
Log2RoundsDown(f) ==
  /\ \A k \in 2..49 : f.m[k] = 0
  /\ ToNat(SubSeq(f.m, 50, 53)) <= 11

\* num: u64
n_required_bits_for_an_unsigned_int(num) ==
  LET i == AsF64(num)
  IN  IF i.zero \/ i.e = 0 THEN 1            \* j = -inf or j = 0: not j > 0
      ELSE IF IsPow2(i) THEN i.e + 1
      ELSE IF Log2RoundsUp(i) THEN i.e + 2
      ELSE i.e + 1

\* num: i64
n_required_bits_for_a_signed_int(num) ==
  LET i == AsF64(IF num[1] = 1 THEN Neg(num) ELSE num)
  IN  IF i.zero \/ i.e = 0 THEN 1
      ELSE IF IsPow2(i) THEN i.e + 1
      ELSE IF Log2RoundsDown(i) THEN i.e + 1
      ELSE i.e + 2

\* ------------------------------------------------------------------------
\* ExtractBitsFromIntegralTypes
\* ------------------------------------------------------------------------

\* fault: the right shift is arithmetic whatever the type
get_same_width_arithmetic(target, bits, bit_offset, length) ==
  LET w == Width(target)
      e == check_range(w, bit_offset, length)
  IN  IF e # "" THEN Err(e, "", 0)
      ELSE Ok(target, Sar(Shl(bits, bit_offset), w - length))

\* fault: the right shift is logical whatever the type
get_same_width_logical(target, bits, bit_offset, length) ==
  LET w == Width(target)
      e == check_range(w, bit_offset, length)
  IN  IF e # "" THEN Err(e, "", 0)
      ELSE Ok(target, Shr(Shl(bits, bit_offset), w - length))

\* the getters that do the work: u8::get_u8 / get_i8, u16::get_u16 / get_i16,
\* u32::get_u32 / get_i32, u64::get_u64 / get_i64 (target as wide as source)
get_same_width(target, bits, bit_offset, length) ==
  LET w == Width(target)
      e == check_range(w, bit_offset, length)
  IN  IF e # "" THEN Err(e, "", 0)
      ELSE LET copy == Shl(bits, bit_offset)
           IN  Ok(target, IF is_signed(target) THEN Sar(copy, w - length)
                          ELSE Shr(copy, w - length))

\* fault: a narrowing getter without its length check returns the field
\* truncated to the target
get_int_truncating(src, bits, target, bit_offset, length) ==
  LET r == get_same_width(IF is_signed(target) THEN ITy(Width(src)) ELSE UTy(Width(src)),
                          bits, bit_offset, length)
  IN  IF ~r.ok THEN r ELSE Ok(target, Cast(r.bits, is_signed(target), Width(target)))

\* fault: a signed source keeps its signedness, so its fields are shifted
\* arithmetically whatever the target
get_int_signed_source(src, bits, target, bit_offset, length) ==
  LET w    == Width(src)
      tw   == Width(target)
      same == IF is_signed(target) \/ is_signed(src) THEN ITy(w) ELSE UTy(w)
  IN  IF tw < w /\ length > tw THEN Err(LEN_TOO_BIG_MSG, target, 0)
      ELSE LET r == get_same_width(same, bits, bit_offset, length)
           IN  IF ~r.ok THEN r
               ELSE Ok(target, Cast(r.bits, is_signed(target), tw))

\* src.get_<target>(bit_offset, length) for every source and target type; a
\* signed source forwards to the unsigned one, (self as u8).get_<target>(..)
get_int(src, bits, target, bit_offset, length) ==
  LET w    == Width(src)
      tw   == Width(target)
      same == IF is_signed(target) THEN ITy(w) ELSE UTy(w)
      copy == IF is_signed(src) THEN Cast(bits, TRUE, w) ELSE bits
  IN  IF tw < w /\ length > tw THEN Err(LEN_TOO_BIG_MSG, target, 0)
      ELSE LET r == get_same_width(same, copy, bit_offset, length)
           IN  IF ~r.ok THEN r
               ELSE Ok(target, Cast(r.bits, is_signed(target), tw))

\* ------------------------------------------------------------------------
\* InsertIntoSizedIntegerTypes
\* ------------------------------------------------------------------------

\* the minimum width check shared by both set functions
value_width_error(vty, vbits, length) ==
  LET n == IF is_signed(vty)
             THEN n_required_bits_for_a_signed_int(Cast(vbits, TRUE, 64))
             ELSE n_required_bits_for_an_unsigned_int(Cast(vbits, FALSE, 64))
  IN  IF n > length THEN Err(VALUE_TOO_WIDE, "", n) ELSE NoResult

\* for i in i .. end { set or clear bit i of result as bit i of value_copy }
RECURSIVE set_loop(_, _, _, _, _)
set_loop(ty, result, value_copy, i, end) ==
  IF i >= end THEN Ok(ty, result)
  ELSE LET g == get_bit(ty, value_copy, i)
       IN  IF ~g.ok THEN g
           ELSE LET r == IF g.bits[1] = 1 THEN set_bit(ty, result, i)
                         ELSE clear_bit(ty, result, i)
                IN  IF ~r.ok THEN r
                    ELSE set_loop(ty, r.bits, value_copy, i + 1, end)

\* fault: the width of value is checked before the range
set_int_width_first(ty, bits, bit_offset, length, vty, vbits) ==
  LET w == Width(ty)
      e == check_range(w, bit_offset, length)
      v == value_width_error(vty, vbits, length)
  IN  IF v.err # "" THEN v
      ELSE IF length > w THEN Err(LEN_TOO_BIG_MSG, ty, 0)
      ELSE IF e # "" THEN Err(e, "", 0)
      ELSE LET value_copy == Cast(vbits, is_signed(vty), w)
               shift      == w - (bit_offset + length)
           IN  set_loop(ty, bits, Shl(value_copy, shift),
                        bit_offset, bit_offset + length)

\* self.set(bit_offset, length, value) on a sized integer (def_set_fn!)
set_int(ty, bits, bit_offset, length, vty, vbits) ==
  LET w == Width(ty)
      e == check_range(w, bit_offset, length)
      v == value_width_error(vty, vbits, length)
  IN  IF length > w THEN Err(LEN_TOO_BIG_MSG, ty, 0)
      ELSE IF e # "" THEN Err(e, "", 0)
      ELSE IF v.err # "" THEN v
      ELSE LET value_copy == Cast(vbits, is_signed(vty), w)
               shift      == w - (bit_offset + length)
           IN  set_loop(ty, bits, Shl(value_copy, shift),
                        bit_offset, bit_offset + length)

\* ------------------------------------------------------------------------
\* ExtractBitsFromVecU8
\* ------------------------------------------------------------------------

\* self.len()
VecLen(v) == Len(v) \div 8

\* self[k as usize], k < self.len()
Byte(v, k) == SubSeq(v, 8 * k + 1, 8 * k + 8)

\* (self[k] as T) << shift, T of width w; viaI8 when the byte is first cast
\* to i8 (`self[k] as i8`), which makes the widening cast extend its sign
Put(v, k, viaI8, w, shift) == Shl(Cast(Byte(v, k), viaI8, w), shift)

\* fault: the check of the vector's end leaves the length out
stays_within_start_only(v, byte_offset, bit_offset, length) ==
  VecLen(v) * 8 >= byte_offset * 8 + bit_offset

\* fault: a bit offset above 7 is refused
stays_within_bit_offset_7(v, byte_offset, bit_offset, length) ==
  bit_offset <= 7 /\ VecLen(v) * 8 >= byte_offset * 8 + bit_offset + length

\* "Ensure that we stay within the vector"
stays_within(v, byte_offset, bit_offset, length) ==
  VecLen(v) * 8 >= byte_offset * 8 + bit_offset + length

\* fault: the byte offset does not take the bytes of a bit offset above 7
byte_offset_copy_fixed(byte_offset, bit_offset) == byte_offset

\* byte_offset_copy and bit_offset_copy after the normalisation
byte_offset_copy(byte_offset, bit_offset) == byte_offset + bit_offset \div 8

\* fault: the bit offset is not reduced after the byte offset took its bytes
bit_offset_copy_unreduced(bit_offset) == bit_offset

bit_offset_copy(bit_offset) == bit_offset - (bit_offset \div 8) * 8

\* fault: the frame without "Ensure that we stay within the vector"
vec_frame_no_range_check(v, tw, byte_offset, bit_offset, length, nbytes, value) ==
  IF length = 0 THEN Err(LEN_ZERO, "", 0)
  ELSE IF length > tw THEN Err(OUT_OF_RANGE_MSG, "", 0)
  ELSE IF byte_offset_copy(byte_offset, bit_offset) + nbytes > VecLen(v)
    THEN Err(PANIC, "", 0)
  ELSE value

\* the frame every vector getter shares: the length checks, the range check,
\* and the index check of the `nbytes` bytes its branch reads
vec_frame(v, tw, byte_offset, bit_offset, length, nbytes, value) ==
  IF length = 0 THEN Err(LEN_ZERO, "", 0)
  ELSE IF length > tw THEN Err(OUT_OF_RANGE_MSG, "", 0)
  ELSE IF ~stays_within(v, byte_offset, bit_offset, length)
    THEN Err(OUT_OF_RANGE_MSG, "", 0)
  ELSE IF byte_offset_copy(byte_offset, bit_offset) + nbytes > VecLen(v)
    THEN Err(PANIC, "", 0)
  ELSE value

vec_get_u8(v, byte_offset, bit_offset, length) ==
  LET k  == byte_offset_copy(byte_offset, bit_offset)
      bo == bit_offset_copy(bit_offset)
  IN  IF bo + length <= 8
        THEN vec_frame(v, 8, byte_offset, bit_offset, length, 1,
               Ok("u8", Shr(Shl(Byte(v, k), bo), 8 - length)))
        ELSE vec_frame(v, 8, byte_offset, bit_offset, length, 2,
               LET result == BitOr(Put(v, k, FALSE, 16, 8), Put(v, k + 1, FALSE, 16, 0))
               IN  Ok("u8", Cast(Shr(Shl(result, bo), 16 - length), FALSE, 8)))

vec_get_i8(v, byte_offset, bit_offset, length) ==
  LET k  == byte_offset_copy(byte_offset, bit_offset)
      bo == bit_offset_copy(bit_offset)
  IN  IF bo + length <= 8
        THEN vec_frame(v, 8, byte_offset, bit_offset, length, 1,
               Ok("i8", Sar(Shl(Byte(v, k), bo), 8 - length)))
        ELSE vec_frame(v, 8, byte_offset, bit_offset, length, 2,
               \* copy1 and copy2 are both i8 before they are widened to i16
               LET result == BitOr(Put(v, k, TRUE, 16, 8), Put(v, k + 1, TRUE, 16, 0))
               IN  Ok("i8", Cast(Sar(Shl(result, bo), 16 - length), TRUE, 8)))

vec_get_u16(v, byte_offset, bit_offset, length) ==
  LET k  == byte_offset_copy(byte_offset, bit_offset)
      bo == bit_offset_copy(bit_offset)
  IN  IF bo + length <= 8
        THEN vec_frame(v, 16, byte_offset, bit_offset, length, 1,
               Ok("u16", Shr(Put(v, k, TRUE, 16, 8 + bo), 16 - length)))
      ELSE IF bo + length <= 16
        THEN vec_frame(v, 16, byte_offset, bit_offset, length, 2,
               LET copy3 == BitOr(Put(v, k, FALSE, 16, 8), Put(v, k + 1, FALSE, 16, 0))
               IN  Ok("u16", Shr(Shl(copy3, bo), 16 - length)))
        ELSE vec_frame(v, 16, byte_offset, bit_offset, length, 3,
               LET copy4 == BitOr(Put(v, k, FALSE, 32, 16),
                              BitOr(Put(v, k + 1, FALSE, 32, 8), Put(v, k + 2, FALSE, 32, 0)))
               IN  Ok("u16", Cast(Shr(Shl(copy4, bo + 8), 32 - length), FALSE, 16)))

vec_get_i16(v, byte_offset, bit_offset, length) ==
  LET k  == byte_offset_copy(byte_offset, bit_offset)
      bo == bit_offset_copy(bit_offset)
  IN  IF bo + length <= 8
        THEN vec_frame(v, 16, byte_offset, bit_offset, length, 1,
               Ok("i16", Sar(Put(v, k, TRUE, 16, 8 + bo), 16 - length)))
      ELSE IF bo + length <= 16
        THEN vec_frame(v, 16, byte_offset, bit_offset, length, 2,
               LET copy3 == BitOr(Put(v, k, FALSE, 16, 8), Put(v, k + 1, FALSE, 16, 0))
               IN  Ok("i16", Sar(Shl(copy3, bo), 16 - length)))
        ELSE vec_frame(v, 16, byte_offset, bit_offset, length, 3,
               LET copy4 == BitOr(Put(v, k, FALSE, 32, 16),
                              BitOr(Put(v, k + 1, FALSE, 32, 8), Put(v, k + 2, FALSE, 32, 0)))
               IN  Ok("i16", Cast(Sar(Shl(copy4, bo + 8), 32 - length), TRUE, 16)))

\* the 2-, 3-, 4- and 5-byte branches of get_u32 and get_i32: the bytes are
\* widened from u8 and OR-ed, most significant first, into a w-bit integer
vec_or_bytes(v, k, nbytes, w) ==
  CASE nbytes = 2 -> BitOr(Put(v, k, FALSE, w, 8), Put(v, k + 1, FALSE, w, 0))
    [] nbytes = 3 -> BitOr(Put(v, k, FALSE, w, 16),
                       BitOr(Put(v, k + 1, FALSE, w, 8), Put(v, k + 2, FALSE, w, 0)))
    [] nbytes = 4 -> BitOr(Put(v, k, FALSE, w, 24),
                       BitOr(Put(v, k + 1, FALSE, w, 16),
                         BitOr(Put(v, k + 2, FALSE, w, 8), Put(v, k + 3, FALSE, w, 0))))
    [] nbytes = 5 -> BitOr(Put(v, k, FALSE, w, 32),
                       BitOr(Put(v, k + 1, FALSE, w, 24),
                         BitOr(Put(v, k + 2, FALSE, w, 16),
                           BitOr(Put(v, k + 3, FALSE, w, 8), Put(v, k + 4, FALSE, w, 0)))))

vec_get_u32(v, byte_offset, bit_offset, length) ==
  LET k  == byte_offset_copy(byte_offset, bit_offset)
      bo == bit_offset_copy(bit_offset)
  IN  IF bo + length <= 8
        THEN vec_frame(v, 32, byte_offset, bit_offset, length, 1,
               Ok("u32", Shr(Put(v, k, FALSE, 32, 24 + bo), 32 - length)))
      ELSE IF bo + length <= 16
        THEN vec_frame(v, 32, byte_offset, bit_offset, length, 2,
               Ok("u32", Shr(Shl(vec_or_bytes(v, k, 2, 32), bo + 16), 32 - length)))
      ELSE IF bo + length <= 24
        THEN vec_frame(v, 32, byte_offset, bit_offset, length, 3,
               Ok("u32", Shr(Shl(vec_or_bytes(v, k, 3, 32), bo + 8), 32 - length)))
      ELSE IF bo + length <= 32
        THEN vec_frame(v, 32, byte_offset, bit_offset, length, 4,
               Ok("u32", Shr(Shl(vec_or_bytes(v, k, 4, 32), bo), 32 - length)))
        ELSE vec_frame(v, 32, byte_offset, bit_offset, length, 5,
               Ok("u32", Cast(Shr(Shl(vec_or_bytes(v, k, 5, 64), 24 + bo), 64 - length),
                              FALSE, 32)))

vec_get_i32(v, byte_offset, bit_offset, length) ==
  LET k  == byte_offset_copy(byte_offset, bit_offset)
      bo == bit_offset_copy(bit_offset)
  IN  IF bo + length <= 8
        THEN vec_frame(v, 32, byte_offset, bit_offset, length, 1,
               Ok("i32", Sar(Put(v, k, TRUE, 32, 24 + bo), 32 - length)))
      ELSE IF bo + length <= 16
        THEN vec_frame(v, 32, byte_offset, bit_offset, length, 2,
               Ok("i32", Sar(Shl(vec_or_bytes(v, k, 2, 32), bo + 16), 32 - length)))
      ELSE IF bo + length <= 24
        THEN vec_frame(v, 32, byte_offset, bit_offset, length, 3,
               Ok("i32", Sar(Shl(vec_or_bytes(v, k, 3, 32), bo + 8), 32 - length)))
      ELSE IF bo + length <= 32
        THEN vec_frame(v, 32, byte_offset, bit_offset, length, 4,
               Ok("i32", Sar(Shl(vec_or_bytes(v, k, 4, 32), bo), 32 - length)))
        ELSE vec_frame(v, 32, byte_offset, bit_offset, length, 5,
               Ok("i32", Cast(Sar(Shl(vec_or_bytes(v, k, 5, 64), 24 + bo), 64 - length),
                              TRUE, 32)))

VecTargets == {"u8", "i8", "u16", "i16", "u32", "i32"}

\* v.get_<target>(byte_offset, bit_offset, length)
get_vec(v, target, byte_offset, bit_offset, length) ==
  CASE target = "u8"  -> vec_get_u8(v, byte_offset, bit_offset, length)
    [] target = "i8"  -> vec_get_i8(v, byte_offset, bit_offset, length)
    [] target = "u16" -> vec_get_u16(v, byte_offset, bit_offset, length)
    [] target = "i16" -> vec_get_i16(v, byte_offset, bit_offset, length)
    [] target = "u32" -> vec_get_u32(v, byte_offset, bit_offset, length)
    [] target = "i32" -> vec_get_i32(v, byte_offset, bit_offset, length)

\* ------------------------------------------------------------------------
\* InsertBitsIntoVecU8
\* ------------------------------------------------------------------------

\* what the call leaves behind: its return value, the vector, and the loop
\* variable bit_counter
SetVecOut(res, v, bit_counter) == [res |-> res, vec |-> v, bit_counter |-> bit_counter]

\* v with byte k replaced by copy: self[byte_index as usize] = copy
WithByte(v, k, copy) ==
  Bits([i \in 1..Len(v) |-> IF i > 8 * k /\ i <= 8 * k + 8 THEN copy[i - 8 * k] ELSE v[i]])

\* fault: the value is read from its most significant bit on
read_bit_index_from_msb(vty, length, overflow_checks) == 0

\* core::mem::size_of::<T>() as u32 * 8 - length.  When length exceeds the
\* width of T the subtraction overflows: a build with overflow checks panics,
\* one without them wraps to a u32 of at least 2^32 - 64, which stands here
\* as a number above every bit width
read_bit_index_start(vty, length, overflow_checks) ==
  IF Width(vty) >= length THEN Width(vty) - length
  ELSE IF overflow_checks THEN -1
  ELSE Pow2(30) + (Width(vty) - length)

\* Step 2: while bit_counter > 0 { ... }, on the copy of one byte.  Returns
\* the copy, the three counters and the error a `?` returned with
RECURSIVE set_vec_bits(_, _, _, _, _, _)
set_vec_bits(copy, bit_counter, read_bit_index, write_bit_index, vty, vbits) ==
  IF bit_counter = 0
    THEN [res |-> NoResult, copy |-> copy, bit_counter |-> bit_counter,
          read_bit_index |-> read_bit_index, write_bit_index |-> write_bit_index]
  ELSE LET g == get_bit(vty, vbits, read_bit_index)
           c == IF g.bits[1] = 1 THEN set_bit("u8", copy, write_bit_index)
                ELSE clear_bit("u8", copy, write_bit_index)
       IN  IF ~g.ok
             THEN [res |-> g, copy |-> copy, bit_counter |-> bit_counter,
                   read_bit_index |-> read_bit_index, write_bit_index |-> write_bit_index]
           ELSE IF ~c.ok
             THEN [res |-> c, copy |-> copy, bit_counter |-> bit_counter,
                   read_bit_index |-> read_bit_index, write_bit_index |-> write_bit_index]
           ELSE IF (write_bit_index + 1) % 8 = 0
             THEN [res |-> NoResult, copy |-> c.bits, bit_counter |-> bit_counter - 1,
                   read_bit_index |-> read_bit_index + 1, write_bit_index |-> 0]
           ELSE set_vec_bits(c.bits, bit_counter - 1, read_bit_index + 1,
                             write_bit_index + 1, vty, vbits)

\* for byte_index in byte_index .. last_relevant_byte_index + 1 { ... }
RECURSIVE set_vec_bytes(_, _, _, _, _, _, _, _)
set_vec_bytes(v, byte_index, last_relevant_byte_index, bit_counter, read_bit_index, write_bit_index, vty, vbits) ==
  IF byte_index > last_relevant_byte_index
    THEN SetVecOut(Ok("()", <<>>), v, bit_counter)
  ELSE IF byte_index >= VecLen(v)
    THEN SetVecOut(Err(PANIC, "", 0), v, bit_counter)
  ELSE LET w == set_vec_bits(Byte(v, byte_index), bit_counter, read_bit_index,
                             write_bit_index, vty, vbits)
       IN  IF w.res.err # "" THEN SetVecOut(w.res, v, w.bit_counter)
           ELSE set_vec_bytes(WithByte(v, byte_index, w.copy), byte_index + 1,
                              last_relevant_byte_index, w.bit_counter,
                              w.read_bit_index, w.write_bit_index, vty, vbits)

\* fault: the width of value is checked after the bytes are written
set_vec_width_last(v, byte_offset, bit_offset, length, vty, vbits, overflow_checks) ==
  LET e == value_width_error(vty, vbits, length)
      first_relevant_byte_index == byte_offset + bit_offset \div 8
      last_relevant_byte_index  == byte_offset + (bit_offset + length - 1) \div 8
      read_bit_index == read_bit_index_start(vty, length, overflow_checks)
      out == set_vec_bytes(v, first_relevant_byte_index, last_relevant_byte_index,
                           length, read_bit_index, bit_offset % 8, vty, vbits)
  IN  IF length = 0 THEN SetVecOut(Err(LEN_ZERO, "", 0), v, length)
      ELSE IF byte_offset * 8 + bit_offset + length > VecLen(v) * 8
        THEN SetVecOut(Err(OUT_OF_RANGE_MSG, "", 0), v, length)
      ELSE IF read_bit_index < 0 THEN SetVecOut(Err(PANIC, "", 0), v, length)
      ELSE IF e.err # "" /\ out.res.ok THEN SetVecOut(e, out.vec, out.bit_counter)
      ELSE out

\* v.set(byte_offset, bit_offset, length, value)
set_vec(v, byte_offset, bit_offset, length, vty, vbits, overflow_checks) ==
  LET e == value_width_error(vty, vbits, length)
      first_relevant_byte_index == byte_offset + bit_offset \div 8
      last_relevant_byte_index  == byte_offset + (bit_offset + length - 1) \div 8
      read_bit_index == read_bit_index_start(vty, length, overflow_checks)
  IN  IF length = 0 THEN SetVecOut(Err(LEN_ZERO, "", 0), v, length)
      ELSE IF byte_offset * 8 + bit_offset + length > VecLen(v) * 8
        THEN SetVecOut(Err(OUT_OF_RANGE_MSG, "", 0), v, length)
      ELSE IF e.err # "" THEN SetVecOut(e, v, length)
      ELSE IF read_bit_index < 0 THEN SetVecOut(Err(PANIC, "", 0), v, length)
      ELSE set_vec_bytes(v, first_relevant_byte_index, last_relevant_byte_index,
                         length, read_bit_index, bit_offset % 8, vty, vbits)

\* ------------------------------------------------------------------------
\* The caller: inputs
\* ------------------------------------------------------------------------

\* a byte repeated to fill a w-bit integer
Repeat(byte, w) == Bits([i \in 1..w |-> byte[((i - 1) % 8) + 1]])

\* bit patterns of the integers the caller holds: 0, all ones, 0xA5A5..,
\* 0x6363.. (the pattern of the insertion tests), 5 and -33 (the crate doc)
Patterns(w) ==
  { Zeros(w), LowOnes(w, w), Repeat(FromInt(8, 165), w), Repeat(FromInt(8, 99), w),
    FromInt(w, 5), FromInt(w, -33) }

IntInputs ==
  UNION { { [ty |-> ty, bits |-> b] : b \in Patterns(Width(ty)) } : ty \in IntTypes }

\* bit offsets and lengths the caller passes for a w-bit integer: the low
\* ones, those around the middle, and those around the width (w and w + 1
\* are past a valid offset, w + 1 past a valid length)
Marks(w) == (0..8) \cup {w \div 2 - 1, w \div 2, w \div 2 + 1, w - 3, w - 1, w, w + 1}

\* the values the caller inserts, with their types
Values ==
  { [ty |-> "u8", bits |-> FromInt(8, n)] : n \in {0, 1, 3, 5, 255} } \cup
  { [ty |-> "i8", bits |-> FromInt(8, n)] : n \in {-1, -3, -5, 1, 2, -128} } \cup
  { [ty |-> "u16", bits |-> FromInt(16, 728)], [ty |-> "i16", bits |-> FromInt(16, -296)],
    [ty |-> "u32", bits |-> LowOnes(32, 32)], [ty |-> "i32", bits |-> FromInt(32, 349525)],
    [ty |-> "u64", bits |-> LowOnes(64, 49)], [ty |-> "u64", bits |-> LowOnes(64, 64)],
    [ty |-> "i64", bits |-> FromInt(64, -5)], [ty |-> "i64", bits |-> Shl(LowOnes(64, 64), 63)] }

\* the bytes of the test vector "Hallo, Welt!" and bytes with the top bit set
HalloBytes == <<72, 97, 108, 108, 111, 44, 32, 87, 101, 108, 116, 33>>

MixedBytes == <<165, 90, 255, 0, 129, 126>>

\* the vector of n bytes taken in turn from a tuple of byte values
VecOf(bytes, n) ==
  Bits([i \in 1..(8 * n) |->
          FromInt(8, bytes[(((i - 1) \div 8) % Len(bytes)) + 1])[((i - 1) % 8) + 1]])

VecInputs ==
  { [ty |-> VecType, bits |-> VecOf(b, n)] :
      b \in {HalloBytes, MixedBytes, <<255>>}, n \in 0..MaxVecLen }

VecBitOffsets == {0, 1, 4, 7, 15, 36}

VecLengths == {0, 1, 2, 3, 5, 8, 9, 10, 16, 17, 24, 26, 32, 33}

\* ------------------------------------------------------------------------
\* The caller: one call on the value it holds
\* ------------------------------------------------------------------------

\* the record of a call: its name, its arguments (those it has), the bits of
\* self before it, its return value and the final bit_counter of a vector set
Call(op, target, byte_offset, bit_offset, length, value, res, bit_counter) ==
  [op |-> op, target |-> target, byte_offset |-> byte_offset,
   bit_offset |-> bit_offset, length |-> length, value |-> value,
   before |-> self.bits, res |-> res, bit_counter |-> bit_counter]

NoValue == [ty |-> "", bits |-> <<>>]

NoCall == [op |-> "none", target |-> "", byte_offset |-> 0, bit_offset |-> 0,
           length |-> 0, value |-> NoValue, before |-> <<>>, res |-> NoResult,
           bit_counter |-> 0]

InitInt == self \in IntInputs /\ last = NoCall /\ pc = "ready"

InitVec == self \in VecInputs /\ last = NoCall /\ pc = "ready"

Init == InitInt \/ InitVec

\* self.set_bit(bit_offset)
SetBit ==
  /\ pc = "ready" /\ self.ty \in IntTypes
  /\ \E bit_offset \in 0..Width(self.ty) :
       last' = Call("set_bit", self.ty, 0, bit_offset, 0, NoValue,
                    set_bit(self.ty, self.bits, bit_offset), 0)
  /\ pc' = "done"
  /\ UNCHANGED self

\* self.clear_bit(bit_offset)
ClearBit ==
  /\ pc = "ready" /\ self.ty \in IntTypes
  /\ \E bit_offset \in 0..Width(self.ty) :
       last' = Call("clear_bit", self.ty, 0, bit_offset, 0, NoValue,
                    clear_bit(self.ty, self.bits, bit_offset), 0)
  /\ pc' = "done"
  /\ UNCHANGED self

\* self.get_bit(bit_offset)
GetBit ==
  /\ pc = "ready" /\ self.ty \in IntTypes
  /\ \E bit_offset \in 0..Width(self.ty) :
       last' = Call("get_bit", "bool", 0, bit_offset, 0, NoValue,
                    get_bit(self.ty, self.bits, bit_offset), 0)
  /\ pc' = "done"
  /\ UNCHANGED self

\* self.get_<target>(bit_offset, length) on a sized integer
GetInt ==
  /\ pc = "ready" /\ self.ty \in IntTypes
  /\ \E target \in IntTypes, bit_offset \in Marks(Width(self.ty)),
        length \in Marks(Width(self.ty)) :
       last' = Call("get", target, 0, bit_offset, length, NoValue,
                    get_int(self.ty, self.bits, target, bit_offset, length), 0)
  /\ pc' = "done"
  /\ UNCHANGED self

\* self.set(bit_offset, length, value) on a sized integer; the new integer is
\* the return value, self is a copy
SetInt ==
  /\ pc = "ready" /\ self.ty \in IntTypes
  /\ \E bit_offset \in Marks(Width(self.ty)), length \in Marks(Width(self.ty)),
        value \in Values :
       last' = Call("set", self.ty, 0, bit_offset, length, value,
                    set_int(self.ty, self.bits, bit_offset, length, value.ty, value.bits), 0)
  /\ pc' = "done"
  /\ UNCHANGED self

\* v.get_<target>(byte_offset, bit_offset, length) on a vector
GetVec ==
  /\ pc = "ready" /\ self.ty = VecType
  /\ \E target \in VecTargets, byte_offset \in 0..MaxVecLen,
        bit_offset \in VecBitOffsets, length \in VecLengths :
       last' = Call("get", target, byte_offset, bit_offset, length, NoValue,
                    get_vec(self.bits, target, byte_offset, bit_offset, length), 0)
  /\ pc' = "done"
  /\ UNCHANGED self

\* v.set(byte_offset, bit_offset, length, value) on a vector, in place; the
\* build decides what an arithmetic overflow does
SetVec ==
  /\ pc = "ready" /\ self.ty = VecType
  /\ \E byte_offset \in 0..MaxVecLen, bit_offset \in VecBitOffsets,
        length \in VecLengths, value \in Values, overflow_checks \in BOOLEAN :
       LET out == set_vec(self.bits, byte_offset, bit_offset, length,
                          value.ty, value.bits, overflow_checks)
       IN  /\ last' = Call("set", VecType, byte_offset, bit_offset, length, value,
                           out.res, out.bit_counter)
           /\ self' = [self EXCEPT !.bits = out.vec]
  /\ pc' = "done"

\* the 64-bit numbers a caller passes to the estimators: 2^k - 1, 2^k and
\* 2^k + 1 for every k, and the numbers -130 .. 257
EstimatorNums ==
  { LowOnes(64, k) : k \in 0..64 } \cup
  { Shl(LowOnes(64, 1), k) : k \in 0..63 } \cup
  { BitOr(Shl(LowOnes(64, 1), k), LowOnes(64, 1)) : k \in 1..63 } \cup
  { FromInt(64, n) : n \in -130..257 }

InitEstimate ==
  /\ self \in { [ty |-> ty, bits |-> b] : ty \in {"u64", "i64"}, b \in EstimatorNums }
  /\ last = NoCall /\ pc = "ready"

\* n_required_bits_for_an_unsigned_int(self)
EstimateUnsigned ==
  /\ pc = "ready" /\ self.ty = "u64"
  /\ last' = Call("n_required_bits_for_an_unsigned_int", "u32", 0, 0, 0, NoValue,
                  OkU32(n_required_bits_for_an_unsigned_int(self.bits)), 0)
  /\ pc' = "done"
  /\ UNCHANGED self

\* n_required_bits_for_a_signed_int(self)
EstimateSigned ==
  /\ pc = "ready" /\ self.ty = "i64"
  /\ last' = Call("n_required_bits_for_a_signed_int", "u32", 0, 0, 0, NoValue,
                  OkU32(n_required_bits_for_a_signed_int(self.bits)), 0)
  /\ pc' = "done"
  /\ UNCHANGED self

NextEstimate == EstimateUnsigned \/ EstimateSigned

NextBits == SetBit \/ ClearBit \/ GetBit

Next == SetBit \/ ClearBit \/ GetBit \/ GetInt \/ SetInt \/ GetVec \/ SetVec \/ EstimateUnsigned \/ EstimateSigned

\* every entry point, on any value
Spec == Init /\ [][Next]_vars

\* the single-bit accessors
SpecBits == InitInt /\ [][NextBits]_vars

\* extraction from a sized integer
SpecGetInt == InitInt /\ [][GetInt]_vars

\* insertion into a sized integer
SpecSetInt == InitInt /\ [][SetInt]_vars

\* extraction from a vector
SpecGetVec == InitVec /\ [][GetVec]_vars

\* insertion into a vector
SpecSetVec == InitVec /\ [][SetVec]_vars

\* the bit-width estimators
SpecEstimate == InitEstimate /\ [][NextEstimate]_vars

\* a caller that holds one of fewer values: the integers 0xA5A5.. and -33 of
\* every type, the vectors of MixedBytes
IntInputsFew ==
  { [ty |-> ty, bits |-> b] :
      ty \in IntTypes, b \in {Repeat(FromInt(8, 165), 64), FromInt(64, -33)} }

InitFew ==
  /\ \/ \E c \in IntInputsFew :
          self = [ty |-> c.ty, bits |-> Cast(c.bits, FALSE, Width(c.ty))]
     \/ \E n \in 0..MaxVecLen : self = [ty |-> VecType, bits |-> VecOf(MixedBytes, n)]
  /\ last = NoCall /\ pc = "ready"

\* every entry point, on one of the fewer values
SpecCalls == InitFew /\ [][Next]_vars

\* ------------------------------------------------------------------------
\* Properties
\* ------------------------------------------------------------------------

\* the call recorded in `last` was made on a sized integer / on a vector
OnInt(op) == pc = "done" /\ last.op = op /\ self.ty \in IntTypes

OnVec(op) == pc = "done" /\ last.op = op /\ self.ty = VecType

\* MSB-first position of the first bit a vector call addresses
AbsStart == 8 * last.byte_offset + last.bit_offset

\* x is the w-bit pattern whose low `length` bits are the bits of `from` at
\* MSB-first positions start .. start + length - 1 and whose other bits are fill
IsField(x, w, from, start, length, fill) ==
  /\ Len(x) = w
  /\ \A i \in 1..w :
       x[i] = IF i > w - length THEN from[start + i - (w - length)] ELSE fill

\* the value passed to the last set, as the 64-bit two's-complement number it is
ValueAs64 == Cast(last.value.bits, is_signed(last.value.ty), 64)

\* C1: scalar insert non-interference.  When self.set(bit_offset, length,
\* value) on a sized integer succeeds, every bit of the result at a position
\* outside [bit_offset, bit_offset + length) is the bit of self there.
C1_ScalarInsertNonInterference ==
  (OnInt("set") /\ last.res.ok) =>
    /\ Len(last.res.bits) = Width(self.ty)
    /\ \A i \in 1..Width(self.ty) :
         (i <= last.bit_offset \/ i > last.bit_offset + last.length)
           => last.res.bits[i] = last.before[i]

\* C1, the failing call: (-1i64).set(0, 1, 0u8) clears bits 0 .. 32
C1_I64InsertClearsNeighbours ==
  /\ OnInt("set") /\ self = [ty |-> "i64", bits |-> LowOnes(64, 64)]
  /\ last.bit_offset = 0 /\ last.length = 1
  /\ last.value = [ty |-> "u8", bits |-> Zeros(8)]
  /\ last.res = Ok("i64", LowOnes(64, 31))

\* C2: scalar round trip.  When self.set(bit_offset, length, value) succeeds,
\* extracting (bit_offset, length) from the result gives the low `length`
\* bits of value: zero-extended by the unsigned getter of the container's
\* width, sign-extended from the top bit of those bits by the signed one.
C2_ScalarRoundTrip ==
  (OnInt("set") /\ last.res.ok) =>
    LET w == Width(self.ty)
        u == get_int(self.ty, last.res.bits, UTy(w), last.bit_offset, last.length)
        s == get_int(self.ty, last.res.bits, ITy(w), last.bit_offset, last.length)
    IN  /\ u.ok /\ IsField(u.bits, w, ValueAs64, 64 - last.length, last.length, 0)
        /\ s.ok /\ IsField(s.bits, w, ValueAs64, 64 - last.length, last.length,
                           ValueAs64[64 - last.length + 1])

\* C2, the failing call: 0i64.set(0, 61, -3i8) gives 0x0000_000F_FFFF_FFE8,
\* of which get_i64(0, 61) is 0x0000_0001_FFFF_FFFD and not -3
C2_I64RoundTripLosesBits ==
  /\ OnInt("set") /\ self = [ty |-> "i64", bits |-> Zeros(64)]
  /\ last.bit_offset = 0 /\ last.length = 61
  /\ last.value = [ty |-> "i8", bits |-> FromInt(8, -3)]
  /\ last.res.ok
  /\ get_int("i64", last.res.bits, "i64", 0, 61).bits # FromInt(64, -3)

\* C3: scalar unsigned extraction.  For length >= 1, bit_offset + length within
\* the source and length within the target, get_u8 / get_u16 / get_u32 /
\* get_u64 return the source bits bit_offset .. bit_offset + length - 1,
\* zero-extended to the target.
C3_ScalarUnsignedExtraction ==
  (/\ OnInt("get") /\ ~is_signed(last.target)
   /\ last.length >= 1 /\ last.bit_offset + last.length <= Width(self.ty)
   /\ last.length <= Width(last.target)) =>
    /\ last.res.ok /\ last.res.ty = last.target
    /\ IsField(last.res.bits, Width(last.target), last.before,
               last.bit_offset, last.length, 0)

\* C3 happens: 0xFFu8.get_u8(5, 3) = 7
C3_U8Field111Is7 ==
  /\ OnInt("get") /\ self = [ty |-> "u8", bits |-> LowOnes(8, 8)]
  /\ last.target = "u8" /\ last.bit_offset = 5 /\ last.length = 3
  /\ last.res = Ok("u8", FromInt(8, 7))

\* C4: scalar signed extraction.  Under the same conditions get_i8 / get_i16 /
\* get_i32 / get_i64 return the field sign-extended from its own top bit, the
\* source bit at bit_offset, whether the target is narrower or wider.
C4_ScalarSignedExtraction ==
  (/\ OnInt("get") /\ is_signed(last.target)
   /\ last.length >= 1 /\ last.bit_offset + last.length <= Width(self.ty)
   /\ last.length <= Width(last.target)) =>
    /\ last.res.ok /\ last.res.ty = last.target
    /\ IsField(last.res.bits, Width(last.target), last.before,
               last.bit_offset, last.length, last.before[last.bit_offset + 1])

\* C4 happens: 0b0000_0101u8.get_i8(5, 3) = -3
C4_U8Field101IsMinus3 ==
  /\ OnInt("get") /\ self = [ty |-> "u8", bits |-> FromInt(8, 5)]
  /\ last.target = "i8" /\ last.bit_offset = 5 /\ last.length = 3
  /\ last.res = Ok("i8", FromInt(8, -3))

\* the call addresses bits inside the vector and no more than the target holds
VecSpanValid ==
  /\ last.length >= 1 /\ last.length <= Width(last.target)
  /\ AbsStart + last.length <= Len(last.before)

\* C5: buffer unsigned extraction.  For a span inside the vector and a length
\* within the target, get_u8 / get_u16 / get_u32 return the `length` bits from
\* absolute bit byte_offset * 8 + bit_offset on, bytes in index order and bits
\* MSB-first, zero-extended, however many bytes the field spans.
C5_BufferUnsignedExtraction ==
  (OnVec("get") /\ ~is_signed(last.target) /\ VecSpanValid) =>
    /\ last.res.ok /\ last.res.ty = last.target
    /\ IsField(last.res.bits, Width(last.target), last.before,
               AbsStart, last.length, 0)

\* C5 happens: [0x48, 0x61, 0x6C, 0x6C, 0x6F].get_u16(1, 7, 10) = 728, a field
\* that spans three bytes
C5_HalloField728 ==
  /\ OnVec("get") /\ self.bits = VecOf(HalloBytes, 5)
  /\ last.target = "u16" /\ last.byte_offset = 1 /\ last.bit_offset = 7
  /\ last.length = 10
  /\ last.res = Ok("u16", FromInt(16, 728))

\* number of bytes the field of the last vector call spans, and the first
SpanBytes == ((last.bit_offset % 8) + last.length + 7) \div 8

FirstByte == last.byte_offset + last.bit_offset \div 8

\* C6: buffer signed extraction agrees with the scalar extractor.  For a span
\* inside the vector, get_i8 / get_i16 / get_i32 return the field sign-extended
\* from its own top bit, which is what the scalar signed getter returns on the
\* big-endian concatenation of the spanned bytes with offset bit_offset mod 8
\* (compared with it where the concatenation is a sized integer: 1, 2 or 4
\* bytes).
C6_BufferSignedExtraction ==
  (OnVec("get") /\ is_signed(last.target) /\ VecSpanValid) =>
    /\ last.res.ok /\ last.res.ty = last.target
    /\ IsField(last.res.bits, Width(last.target), last.before,
               AbsStart, last.length, last.before[AbsStart + 1])
    /\ SpanBytes \in {1, 2, 4} =>
         last.res = get_int(UTy(8 * SpanBytes),
                            SubSeq(last.before, 8 * FirstByte + 1,
                                   8 * (FirstByte + SpanBytes)),
                            last.target, last.bit_offset % 8, last.length)

\* C6, the failing call: [0xA5, 0x5A, 0xFF].get_i8(1, 7, 2) reads the field 01
\* as -1: the second byte, cast to i8, fills the first with ones
C6_GetI8SecondByteSignExtended ==
  /\ OnVec("get") /\ self.bits = VecOf(MixedBytes, 3)
  /\ last.target = "i8" /\ last.byte_offset = 1 /\ last.bit_offset = 7
  /\ last.length = 2
  /\ last.res = Ok("i8", FromInt(8, -1))

\* C7: buffer insert non-interference.  After a successful v.set(byte_offset,
\* bit_offset, length, value) the vector is as long as before and every bit
\* outside the span is the bit it was.
C7_BufferInsertNonInterference ==
  (OnVec("set") /\ last.res.ok) =>
    /\ Len(self.bits) = Len(last.before)
    /\ \A i \in 1..Len(last.before) :
         (i <= AbsStart \/ i > AbsStart + last.length)
           => self.bits[i] = last.before[i]

\* C7 happens: [0x48, 0x61, 0x6C, 0x6C, 0x6F].set(1, 15, 2, 3u8) changes the
\* last bit of byte 2 and the first of byte 3 (crate doc, Example 5)
C7_Example5 ==
  /\ OnVec("set") /\ last.before = VecOf(HalloBytes, 5)
  /\ last.byte_offset = 1 /\ last.bit_offset = 15 /\ last.length = 2
  /\ last.value = [ty |-> "u8", bits |-> FromInt(8, 3)]
  /\ last.res.ok
  /\ self.bits = VecOf(<<72, 97, 109, 236, 111>>, 5)

\* C8: buffer insert writes the value's low bits in order.  After a successful
\* v.set with length within the width of value's type, the vector bit at
\* absolute position start + k is bit (width - length + k) of value, and the
\* unsigned extraction of the same span returns value mod 2^length.
C8_BufferInsertWritesLowBits ==
  (OnVec("set") /\ last.res.ok /\ last.length <= Width(last.value.ty)) =>
    LET vw == Width(last.value.ty)
    IN  /\ \A k \in 0..(last.length - 1) :
             self.bits[AbsStart + k + 1] = last.value.bits[vw - last.length + k + 1]
        /\ \A target \in {"u8", "u16", "u32"} :
             last.length <= Width(target) =>
               LET g == get_vec(self.bits, target, last.byte_offset,
                                last.bit_offset, last.length)
               IN  /\ g.ok
                   /\ IsField(g.bits, Width(target), last.value.bits,
                              vw - last.length, last.length, 0)

\* C8 happens: [0xFF, 0xFF, 0xFF].set(0, 4, 16, -296i16) writes 0xFED8 across
\* three bytes
C8_I16AcrossThreeBytes ==
  /\ OnVec("set") /\ last.before = VecOf(<<255>>, 3)
  /\ last.byte_offset = 0 /\ last.bit_offset = 4 /\ last.length = 16
  /\ last.value = [ty |-> "i16", bits |-> FromInt(16, -296)]
  /\ last.res.ok
  /\ self.bits = VecOf(<<255, 237, 143>>, 3)

\* C9: clear_bit clears exactly one bit.  For every type and bit_offset below
\* its width, self.clear_bit(bit_offset) is self with the bit at bit_offset 0
\* and every other bit as it was.
C9_ClearBitClearsExactlyOneBit ==
  (OnInt("clear_bit") /\ last.bit_offset < Width(self.ty)) =>
    /\ last.res.ok /\ last.res.ty = self.ty
    /\ Len(last.res.bits) = Width(self.ty)
    /\ \A i \in 1..Width(self.ty) :
         last.res.bits[i] = IF i = last.bit_offset + 1 THEN 0 ELSE last.before[i]

\* C9, the failing call: (-1i64).clear_bit(0) is 0x0000_0000_7FFF_FFFF
C9_I64ClearBitClears33Bits ==
  /\ OnInt("clear_bit") /\ self = [ty |-> "i64", bits |-> LowOnes(64, 64)]
  /\ last.bit_offset = 0
  /\ last.res = Ok("i64", LowOnes(64, 31))

\* C10: set_bit sets exactly one bit.  For every type and bit_offset below its
\* width, self.set_bit(bit_offset) is self with the bit at bit_offset 1 and
\* every other bit as it was; on a signed type bit 0 makes the value negative
\* (5i8 gives -123).
C10_SetBitSetsExactlyOneBit ==
  (OnInt("set_bit") /\ last.bit_offset < Width(self.ty)) =>
    /\ last.res.ok /\ last.res.ty = self.ty
    /\ Len(last.res.bits) = Width(self.ty)
    /\ \A i \in 1..Width(self.ty) :
         last.res.bits[i] = IF i = last.bit_offset + 1 THEN 1 ELSE last.before[i]
    /\ (self = [ty |-> "i8", bits |-> FromInt(8, 5)] /\ last.bit_offset = 0)
         => last.res.bits = FromInt(8, -123)

\* C10 happens: 5i8.set_bit(0) = -123
C10_I8SetSignBit ==
  /\ OnInt("set_bit") /\ self = [ty |-> "i8", bits |-> FromInt(8, 5)]
  /\ last.bit_offset = 0
  /\ last.res = Ok("i8", FromInt(8, -123))

\* C11: get_bit reads the MSB-first bit.  For every type and bit_offset below
\* its width, self.get_bit(bit_offset) is true iff the bit of self at MSB-first
\* position bit_offset (bit W - 1 - bit_offset from the least significant end)
\* is 1, for negative values as well; get_bit after set_bit at the same offset
\* is true and after clear_bit false.
C11_GetBitReadsMsbFirst ==
  /\ (OnInt("get_bit") /\ last.bit_offset < Width(self.ty)) =>
       last.res = Ok("bool", <<last.before[last.bit_offset + 1]>>)
  /\ (OnInt("set_bit") /\ last.res.ok) =>
       get_bit(self.ty, last.res.bits, last.bit_offset) = Ok("bool", <<1>>)
  /\ (OnInt("clear_bit") /\ last.res.ok) =>
       get_bit(self.ty, last.res.bits, last.bit_offset) = Ok("bool", <<0>>)

\* C11 happens: (-33i64).get_bit(0) is true
C11_NegativeI64SignBit ==
  /\ OnInt("get_bit") /\ self = [ty |-> "i64", bits |-> FromInt(64, -33)]
  /\ last.bit_offset = 0
  /\ last.res = Ok("bool", <<1>>)

\* the estimate the width check of set makes for the value of the last call
RequiredBits ==
  IF is_signed(last.value.ty) THEN n_required_bits_for_a_signed_int(ValueAs64)
  ELSE n_required_bits_for_an_unsigned_int(ValueAs64)

\* the width check decided the last set: ValueTooWide quoting the estimate
\* when it exceeds length, success otherwise
WidthCheckDecides ==
  IF RequiredBits > last.length
    THEN last.res = Err(VALUE_TOO_WIDE, "", RequiredBits)
    ELSE last.res.ok

\* C12: minimum-width validation on insert.  For a scalar or buffer insert
\* with length >= 1 and a span inside the container, the call fails with the
\* "Failed to insert" error quoting the estimated number of bits of value when
\* that estimate (signed estimator for a signed value type, unsigned
\* otherwise) exceeds length, and succeeds when it does not.
C12_MinimumWidthValidation ==
  /\ (OnInt("set") /\ last.length >= 1
        /\ last.bit_offset + last.length <= Width(self.ty)) => WidthCheckDecides
  /\ (OnVec("set") /\ last.length >= 1
        /\ AbsStart + last.length <= Len(last.before)) => WidthCheckDecides

\* C12, the failing call: [0xA5, 0x5A].set(0, 0, 9, 3u8) needs 2 bits of 9 and
\* does not succeed: it panics or returns "Out of range"
C12_AcceptedValueLongerThanItsType ==
  /\ OnVec("set") /\ last.before = VecOf(MixedBytes, 2)
  /\ last.byte_offset = 0 /\ last.bit_offset = 0 /\ last.length = 9
  /\ last.value = [ty |-> "u8", bits |-> FromInt(8, 3)]
  /\ RequiredBits = 2
  /\ last.res.err \in {PANIC, OUT_OF_RANGE_MSG}

\* C13 as stated: every scalar extraction whose bit_offset + length exceeds
\* the width of the source fails with "Out of range".
C13_EveryOverlongSpanIsOutOfRange ==
  (OnInt("get") /\ last.bit_offset + last.length > Width(self.ty)) =>
    last.res = Err(OUT_OF_RANGE_MSG, "", 0)

\* C13, amended: a scalar extraction whose bit_offset + length exceeds the
\* width of the source fails, for every source and target type: with "Out of
\* range" when length >= 1 and the target is not both narrower than the source
\* and narrower than length; with the too-big-length error naming the target
\* when it is; with the zero-length error when length = 0.
C13_ScalarRangeRejection ==
  (OnInt("get") /\ last.bit_offset + last.length > Width(self.ty)) =>
    last.res =
      IF Width(last.target) < Width(self.ty) /\ last.length > Width(last.target)
        THEN Err(LEN_TOO_BIG_MSG, last.target, 0)
      ELSE IF last.length = 0 THEN Err(LEN_ZERO, "", 0)
      ELSE Err(OUT_OF_RANGE_MSG, "", 0)

\* C13 happens: (-33i32).get_u8(31, 2) is "Out of range"
C13_I32LastBitLength2 ==
  /\ OnInt("get") /\ self = [ty |-> "i32", bits |-> FromInt(32, -33)]
  /\ last.target = "u8" /\ last.bit_offset = 31 /\ last.length = 2
  /\ last.res = Err(OUT_OF_RANGE_MSG, "", 0)

\* C14: buffer range rejection.  A buffer extraction or insertion with
\* length >= 1 fails with "Out of range" whenever byte_offset * 8 + bit_offset
\* + length exceeds the bits of the vector, also when each argument alone is
\* in range; the last bit of the vector can be read and written; an extraction
\* with length above the width of the target fails with "Out of range".
C14_BufferRangeRejection ==
  /\ (OnVec("get") /\ last.length >= 1
        /\ AbsStart + last.length > Len(last.before))
       => last.res = Err(OUT_OF_RANGE_MSG, "", 0)
  /\ (OnVec("set") /\ last.length >= 1
        /\ AbsStart + last.length > Len(last.before))
       => last.res = Err(OUT_OF_RANGE_MSG, "", 0) /\ self.bits = last.before
  /\ (OnVec("get") /\ last.length = 1 /\ AbsStart + 1 = Len(last.before))
       => last.res.ok /\ last.res.bits[Width(last.target)] = last.before[Len(last.before)]
  /\ (OnVec("set") /\ last.length = 1 /\ AbsStart + 1 = Len(last.before)
        /\ RequiredBits <= 1)
       => last.res.ok /\ self.bits[Len(self.bits)] = last.value.bits[Width(last.value.ty)]
  /\ (OnVec("get") /\ last.length > Width(last.target))
       => last.res = Err(OUT_OF_RANGE_MSG, "", 0)

\* C14 happens: [0xA5, 0x5A, 0xFF].get_u8(2, 7, 2), last byte, bit 7, length 2
C14_LastByteBit7Length2 ==
  /\ OnVec("get") /\ last.before = VecOf(MixedBytes, 3)
  /\ last.target = "u8" /\ last.byte_offset = 2 /\ last.bit_offset = 7
  /\ last.length = 2
  /\ last.res = Err(OUT_OF_RANGE_MSG, "", 0)

\* C15: length too big for a narrowing extraction.  When the target is
\* narrower than the source and the span is legal for the source but longer
\* than the target, the extraction fails with the too-big-length error naming
\* the target; no truncated field is returned.
C15_LengthTooBigForNarrowerTarget ==
  (/\ OnInt("get") /\ Width(last.target) < Width(self.ty)
   /\ last.length >= 1 /\ last.bit_offset + last.length <= Width(self.ty)
   /\ last.length > Width(last.target)) =>
    last.res = Err(LEN_TOO_BIG_MSG, last.target, 0)

\* C15 happens: 0xA5A5u16.get_i8(2, 13) is "... too big for a i8"
C15_U16Field13IntoI8 ==
  /\ OnInt("get") /\ self = [ty |-> "u16", bits |-> Repeat(FromInt(8, 165), 16)]
  /\ last.target = "i8" /\ last.bit_offset = 2 /\ last.length = 13
  /\ last.res = Err(LEN_TOO_BIG_MSG, "i8", 0)

\* C16: zero length is always an error.  Every scalar or buffer extraction
\* or insertion called with length = 0 fails with the zero-length error,
\* whatever the offsets, the container, the value and the target are, and a
\* buffer insertion leaves the vector as it was.
C16_ZeroLengthIsAnError ==
  (pc = "done" /\ last.op \in {"get", "set"} /\ last.length = 0) =>
    /\ last.res = Err(LEN_ZERO, "", 0)
    /\ self.bits = last.before

\* C16 happens: [0xA5, 0x5A].set(6, 36, 0, 255u8), offsets far outside
C16_VecSetZeroLengthOutside ==
  /\ OnVec("set") /\ last.before = VecOf(MixedBytes, 2)
  /\ last.byte_offset = 6 /\ last.bit_offset = 36 /\ last.length = 0
  /\ last.value = [ty |-> "u8", bits |-> FromInt(8, 255)]
  /\ last.res = Err(LEN_ZERO, "", 0)

\* C17: single-bit range check.  For every type of width W, get_bit, set_bit
\* and clear_bit succeed for every bit_offset in 0 .. W - 1 and fail, with
\* "Out of range", exactly when bit_offset >= W.
C17_SingleBitRangeCheck ==
  (pc = "done" /\ last.op \in {"get_bit", "set_bit", "clear_bit"}) =>
    /\ last.res.ok <=> last.bit_offset < Width(self.ty)
    /\ ~last.res.ok => last.res = Err(OUT_OF_RANGE_MSG, "", 0)

\* C17 happens: 0xA5A5i16.clear_bit(16) is "Out of range"
C17_I16ClearBit16 ==
  /\ OnInt("clear_bit") /\ self = [ty |-> "i16", bits |-> Repeat(FromInt(8, 165), 16)]
  /\ last.bit_offset = 16
  /\ last.res = Err(OUT_OF_RANGE_MSG, "", 0)

\* C18: buffer bit-offset normalisation.  An extraction or insertion whose
\* span lies inside the vector behaves as the same call with byte_offset +
\* bit_offset div 8 and bit_offset mod 8: the same value or error for an
\* extraction; the same return value and the same vector for an insertion
\* (under the same build).
C18_BitOffsetNormalisation ==
  /\ (OnVec("get") /\ AbsStart + last.length <= Len(last.before)) =>
       last.res = get_vec(last.before, last.target,
                          last.byte_offset + last.bit_offset \div 8,
                          last.bit_offset % 8, last.length)
  /\ (OnVec("set") /\ AbsStart + last.length <= Len(last.before)) =>
       \E overflow_checks \in BOOLEAN :
         SetVecOut(last.res, self.bits, last.bit_counter) =
           set_vec(last.before, last.byte_offset + last.bit_offset \div 8,
                   last.bit_offset % 8, last.length,
                   last.value.ty, last.value.bits, overflow_checks)

\* C18 happens: [0xA5, 0x5A, 0xFF].get_u8(0, 15, 3) reads the last bit of
\* byte 1 and the first two of byte 2, as get_u8(1, 7, 3) does
C18_GetBitOffset15 ==
  /\ OnVec("get") /\ last.before = VecOf(MixedBytes, 3)
  /\ last.target = "u8" /\ last.byte_offset = 0 /\ last.bit_offset = 15
  /\ last.length = 3
  /\ last.res = Ok("u8", FromInt(8, 3))
  /\ last.res = get_vec(last.before, "u8", 1, 7, 3)

\* C19 as stated: a buffer extraction or insertion whose bit_offset is above 7
\* fails with "Out of range", also when its span lies inside the vector.
C19_BitOffsetAbove7Rejected ==
  (/\ pc = "done" /\ self.ty = VecType /\ last.op \in {"get", "set"}
   /\ last.bit_offset > 7 /\ last.length >= 1
   /\ AbsStart + last.length <= Len(last.before)) =>
    last.res = Err(OUT_OF_RANGE_MSG, "", 0)

\* C19, amended: a bit_offset above 7 is no error of its own.  With length >=
\* 1, an extraction with such a bit_offset fails with "Out of range" exactly
\* when its span leaves the vector or length exceeds the target, and succeeds
\* otherwise; an insertion (length within the width of value's type) fails
\* with "Out of range" exactly when its span leaves the vector, and is
\* otherwise decided by the width check alone.
C19_BitOffsetAbove7Accepted ==
  /\ (OnVec("get") /\ last.bit_offset > 7 /\ last.length >= 1) =>
       IF AbsStart + last.length > Len(last.before)
          \/ last.length > Width(last.target)
         THEN last.res = Err(OUT_OF_RANGE_MSG, "", 0)
         ELSE last.res.ok
  /\ (OnVec("set") /\ last.bit_offset > 7 /\ last.length >= 1
        /\ last.length <= Width(last.value.ty)) =>
       IF AbsStart + last.length > Len(last.before)
         THEN last.res = Err(OUT_OF_RANGE_MSG, "", 0)
         ELSE WidthCheckDecides

\* C19 happens: [0xA5, 0x5A, 0xFF, 0x00].set(1, 15, 2, 3u8) succeeds and sets
\* the first bit of byte 3
C19_SetBitOffset15 ==
  /\ OnVec("set") /\ last.before = VecOf(MixedBytes, 4)
  /\ last.byte_offset = 1 /\ last.bit_offset = 15 /\ last.length = 2
  /\ last.value = [ty |-> "u8", bits |-> FromInt(8, 3)]
  /\ last.res.ok
  /\ self.bits = VecOf(<<165, 90, 255, 128>>, 4)

\* number of bits of the 64-bit pattern x from its highest set bit down, 0
\* for the number 0
BitLength(x) ==
  CHOOSE n \in 0..64 :
    /\ n > 0 => x[65 - n] = 1
    /\ \A j \in 1..(64 - n) : x[j] = 0

\* C20: unsigned bit-width estimator.  n_required_bits_for_an_unsigned_int(u)
\* is 1 for u = 0 and floor(log2(u)) + 1 otherwise, the position of the
\* highest set bit plus one, and so never above 64.
C20_UnsignedEstimator ==
  (pc = "done" /\ last.op = "n_required_bits_for_an_unsigned_int") =>
    /\ last.res.n = IF BitLength(last.before) = 0 THEN 1 ELSE BitLength(last.before)
    /\ last.res.n <= 64

\* C20, the failing call: n_required_bits_for_an_unsigned_int(u64::MAX) is 65
C20_U64MaxNeeds65 ==
  /\ pc = "done" /\ last.op = "n_required_bits_for_an_unsigned_int"
  /\ last.before = LowOnes(64, 64)
  /\ last.res = OkU32(65)

\* |v| of the i64 pattern v as a 64-bit magnitude (2^63 for i64::MIN)
Magnitude(v) == IF v[1] = 1 THEN Neg(v) ELSE v

\* the 64-bit magnitude x has exactly one set bit
OneBitSet(x) == \E k \in 1..64 : x = Shl(LowOnes(64, 1), k - 1)

\* ceil(log2(x)) + 1 over the integers, for a magnitude x >= 1
CeilLog2Plus1(x) == IF OneBitSet(x) THEN BitLength(x) ELSE BitLength(x) + 1

\* C21: signed bit-width estimator formula.  n_required_bits_for_a_signed_int(v)
\* is 1 for v = 0 and for |v| = 1, and ceil(log2(|v|)) + 1 otherwise; the
\* result is a function of |v| alone.
C21_SignedEstimatorFormula ==
  (pc = "done" /\ last.op = "n_required_bits_for_a_signed_int") =>
    LET mag == Magnitude(last.before)
    IN  /\ last.res.n = IF BitLength(mag) <= 1 THEN 1 ELSE CeilLog2Plus1(mag)
        /\ last.res.n = n_required_bits_for_a_signed_int(mag)

\* C21, the failing call: n_required_bits_for_a_signed_int(2^53 + 1) is 54,
\* where ceil(log2(2^53 + 1)) + 1 is 55
C21_TwoPow53Plus1Needs54 ==
  /\ pc = "done" /\ last.op = "n_required_bits_for_a_signed_int"
  /\ last.before = BitOr(Shl(LowOnes(64, 1), 53), LowOnes(64, 1))
  /\ last.res = OkU32(54)

\* the i64 pattern v lies in -2^(n-1) .. 2^(n-1) - 1: it is the sign
\* extension of its low n bits
FitsSigned(v, n) == \A j \in 1..(65 - n) : v[j] = v[1]

\* the smallest n >= 1 with -2^(n-1) <= v <= 2^(n-1) - 1
MinSignedBits(v) ==
  CHOOSE n \in 1..64 : FitsSigned(v, n) /\ \A m \in 1..(n - 1) : ~FitsSigned(v, m)

\* C22: the signed estimator matches the two's-complement range boundaries.
\* For every i64 v, negative, zero or positive,
\* n_required_bits_for_a_signed_int(v) is the smallest n >= 1 with
\* -2^(n-1) <= v <= 2^(n-1) - 1.
C22_SignedEstimatorTwosComplement ==
  (pc = "done" /\ last.op = "n_required_bits_for_a_signed_int") =>
    last.res.n = MinSignedBits(last.before)

\* C22, the failing call: n_required_bits_for_a_signed_int(1) is 1, and one
\* bit holds only -1 and 0
C22_PlusOneNeeds1 ==
  /\ pc = "done" /\ last.op = "n_required_bits_for_a_signed_int"
  /\ last.before = FromInt(64, 1)
  /\ MinSignedBits(last.before) = 2
  /\ last.res = OkU32(1)

\* the last buffer insert had a span inside the vector and a length above the
\* bit width of the type of value
OverlongBufferInsert ==
  /\ OnVec("set") /\ last.length >= 1
  /\ AbsStart + last.length <= Len(last.before)
  /\ last.length > Width(last.value.ty)

\* C23: over-long buffer inserts return errors.  A buffer insert whose span
\* lies inside the vector and whose length exceeds the bit width of the type
\* of value returns an error value and leaves the vector unchanged; it does
\* not abort.
C23_OverlongBufferInsertReturnsError ==
  OverlongBufferInsert =>
    /\ ~last.res.ok
    /\ last.res.err # PANIC
    /\ self.bits = last.before

\* C23, the failing call: [0xA5, 0x5A].set(0, 0, 9, 3u8) in a build with
\* overflow checks aborts on 8 - 9
C23_U8ValueLength9Aborts ==
  /\ OverlongBufferInsert /\ last.before = VecOf(MixedBytes, 2)
  /\ last.byte_offset = 0 /\ last.bit_offset = 0 /\ last.length = 9
  /\ last.value = [ty |-> "u8", bits |-> FromInt(8, 3)]
  /\ last.res = Err(PANIC, "", 0)

\* C24: extraction ignores the signedness of the source.  Every extraction
\* from a sized integer returns what the same extraction returns from the
\* unsigned integer of that width with the same bit pattern, value or error;
\* a value is the field zero-extended for an unsigned target and
\* sign-extended for a signed one.
C24_SourceSignednessIgnored ==
  OnInt("get") =>
    /\ last.res = get_int(UTy(Width(self.ty)), last.before, last.target,
                          last.bit_offset, last.length)
    /\ last.res.ok =>
         IsField(last.res.bits, Width(last.target), last.before,
                 last.bit_offset, last.length,
                 IF is_signed(last.target) THEN last.before[last.bit_offset + 1] ELSE 0)

\* C24, its case: (-33i8).get_u8(1, 3) is 5
C24_I8Minus33Field101Is5 ==
  /\ OnInt("get") /\ self = [ty |-> "i8", bits |-> FromInt(8, -33)]
  /\ last.target = "u8" /\ last.bit_offset = 1 /\ last.length = 3
  /\ last.res = Ok("u8", FromInt(8, 5))

\* C25: scalar insert check order.  For a container of width W,
\* self.set(bit_offset, length, value) fails with the length-too-big error
\* naming the type of the container whenever length > W, whatever bit_offset
\* and value are; fails with "Out of range" when 1 <= length <= W and
\* bit_offset + length > W, whatever value is; and reports a value that is
\* too wide only when the span is valid.
C25_ScalarInsertCheckOrder ==
  OnInt("set") =>
    LET w == Width(self.ty)
    IN  /\ last.length > w => last.res = Err(LEN_TOO_BIG_MSG, self.ty, 0)
        /\ (last.length >= 1 /\ last.length <= w /\ last.bit_offset + last.length > w) =>
             last.res = Err(OUT_OF_RANGE_MSG, "", 0)
        /\ last.res.err = VALUE_TOO_WIDE =>
             (last.length >= 1 /\ last.bit_offset + last.length <= w)

\* C25, its case: 0x63u8.set(7, 2, 5u8), where 5 needs 3 bits and the span
\* ends past the byte, is "Out of range"
C25_U8Span7Length2TooWideValue ==
  /\ OnInt("set") /\ self = [ty |-> "u8", bits |-> FromInt(8, 99)]
  /\ last.bit_offset = 7 /\ last.length = 2
  /\ last.value = [ty |-> "u8", bits |-> FromInt(8, 5)]
  /\ RequiredBits = 3
  /\ last.res = Err(OUT_OF_RANGE_MSG, "", 0)

\* the signed types
SignedTypes == { t \in IntTypes : is_signed(t) }

\* C26: signed values survive insert then extract.  When self.set(bit_offset,
\* length, value) with a value of a signed type succeeds on a sized integer,
\* extracting (bit_offset, length) from the result into a signed target of at
\* least `length` bits returns value itself, positive values included.
C26_SignedInsertExtract ==
  (OnInt("set") /\ last.res.ok /\ is_signed(last.value.ty)) =>
    \A target \in SignedTypes :
      Width(target) >= last.length =>
        get_int(self.ty, last.res.bits, target, last.bit_offset, last.length)
          = Ok(target, Cast(last.value.bits, TRUE, Width(target)))

\* C26, the failing call: 0x63u8.set(5, 2, 2i8) is accepted and gives 0x65,
\* whose field (5, 2) read by get_i8 is -2
C26_PlusTwoReadsBackMinusTwo ==
  /\ OnInt("set") /\ self = [ty |-> "u8", bits |-> FromInt(8, 99)]
  /\ last.bit_offset = 5 /\ last.length = 2
  /\ last.value = [ty |-> "i8", bits |-> FromInt(8, 2)]
  /\ last.res = Ok("u8", FromInt(8, 101))
  /\ get_int("u8", last.res.bits, "i8", 5, 2) = Ok("i8", FromInt(8, -2))

\* C27: validation accepts every value that fits.  A scalar insert of an
\* unsigned value u < 2^length on a valid span does not fail with the
\* "Failed to insert" error; inserting a value of an unsigned W-bit type at
\* offset 0 with length W into a W-bit container succeeds and returns the bit
\* pattern of the value, 2^64 - 1 for W = 64 included.
C27_FittingValueAccepted ==
  (OnInt("set") /\ ~is_signed(last.value.ty) /\ last.length >= 1
     /\ last.bit_offset + last.length <= Width(self.ty)) =>
    /\ BitLength(ValueAs64) <= last.length => last.res.err # VALUE_TOO_WIDE
    /\ (Width(last.value.ty) = Width(self.ty) /\ last.bit_offset = 0
          /\ last.length = Width(self.ty)) =>
         last.res = Ok(self.ty, last.value.bits)

\* C27, the failing call: 0u64.set(0, 64, u64::MAX) fails, quoting 65 bits
C27_U64MaxRejected ==
  /\ OnInt("set") /\ self = [ty |-> "u64", bits |-> Zeros(64)]
  /\ last.bit_offset = 0 /\ last.length = 64
  /\ last.value = [ty |-> "u64", bits |-> LowOnes(64, 64)]
  /\ last.res = Err(VALUE_TOO_WIDE, "", 65)

\* C28: buffer insert is all or nothing.  Whenever v.set(byte_offset,
\* bit_offset, length, value) does not succeed (zero length, out of range,
\* value too wide), every byte of the vector is the byte before the call.
C28_BufferInsertAllOrNothing ==
  (OnVec("set") /\ ~last.res.ok) =>
    /\ self.bits = last.before
    /\ last.res.err \in {LEN_ZERO, OUT_OF_RANGE_MSG, VALUE_TOO_WIDE, PANIC}

\* C28, its case: [0xA5, 0x5A, 0xFF].set(0, 0, 1, 3u8) fails quoting 2 bits
\* and leaves the three bytes
C28_TooWideValueLeavesVector ==
  /\ OnVec("set") /\ last.before = VecOf(MixedBytes, 3)
  /\ last.byte_offset = 0 /\ last.bit_offset = 0 /\ last.length = 1
  /\ last.value = [ty |-> "u8", bits |-> FromInt(8, 3)]
  /\ last.res = Err(VALUE_TOO_WIDE, "", 2)
  /\ self.bits = VecOf(MixedBytes, 3)

\* index of the last byte the field of the last vector call lies in
LastSpanByte == (AbsStart + last.length - 1) \div 8

\* C29: buffer extraction never indexes outside the vector.  For every vector,
\* the empty one included, and every (byte_offset, bit_offset, length) far
\* from the u32 limit: when the range check passes, the 1 to 5 bytes the
\* branch reads all lie inside the vector and the call returns a value; when
\* it does not pass the call returns its error without reading a byte.  No
\* call ends in an index-out-of-bounds panic.
C29_BufferExtractionStaysInside ==
  OnVec("get") =>
    /\ last.res.err # PANIC
    /\ VecSpanValid => (last.res.ok /\ LastSpanByte < VecLen(last.before))
    /\ ~VecSpanValid => last.res.err \in {LEN_ZERO, OUT_OF_RANGE_MSG}

\* C29, its case: the five-byte branch of get_u32 on a vector of exactly five
\* bytes, [0xA5, 0x5A, 0xFF, 0x00, 0x81].get_u32(0, 7, 26), reads byte 4
C29_FiveByteBranchOnFiveBytes ==
  /\ OnVec("get") /\ last.before = VecOf(MixedBytes, 5)
  /\ last.target = "u32" /\ last.byte_offset = 0 /\ last.bit_offset = 7
  /\ last.length = 26
  /\ LastSpanByte = 4 /\ last.res.ok

\* the last buffer insert passed every check made before the write loop:
\* length, range and the width of value
AcceptedBufferInsert ==
  /\ OnVec("set") /\ last.length >= 1
  /\ AbsStart + last.length <= Len(last.before)
  /\ RequiredBits <= last.length

\* C30: the buffer insert loop consumes exactly `length` bits.  For every
\* accepted input the loop over the bytes byte_offset + bit_offset / 8 ..
\* byte_offset + (bit_offset + length - 1) / 8 ends with bit_counter = 0, no
\* get_bit / set_bit / clear_bit call in it fails, and no byte outside those
\* bytes is written.
C30_InsertLoopConsumesLength ==
  AcceptedBufferInsert =>
    /\ last.res.ok
    /\ last.bit_counter = 0
    /\ Len(self.bits) = Len(last.before)
    /\ \A i \in 1..Len(self.bits) :
         ((i - 1) \div 8 < AbsStart \div 8 \/ (i - 1) \div 8 > LastSpanByte)
           => self.bits[i] = last.before[i]

\* C30, the failing call: [0xA5, 0x5A].set(0, 0, 9, 3u8) in a build without
\* overflow checks leaves the loop at its first get_bit with all 9 bits left
C30_LoopLeftWithNineBits ==
  /\ AcceptedBufferInsert /\ last.before = VecOf(MixedBytes, 2)
  /\ last.byte_offset = 0 /\ last.bit_offset = 0 /\ last.length = 9
  /\ last.value = [ty |-> "u8", bits |-> FromInt(8, 3)]
  /\ last.res = Err(OUT_OF_RANGE_MSG, "", 0)
  /\ last.bit_counter = 9

====
